---- MODULE Spec2Model ----
(***************************************************************************)
(* A model of git2-rs' src/cred.rs: the CredentialHelper object that       *)
(* reimplements the gitcredentials(7) helper protocol.                     *)
(*                                                                         *)
(* A borrowed &str or a byte vector, whose bytes the code looks at, is a    *)
(* sequence of one-byte tokens: an ASCII byte is the one-character string  *)
(* of that byte, and the bytes that are not ASCII are the tokens of        *)
(* NonAscii.  An owned String, which the code only stores, compares and    *)
(* formats, is a TLA+ string; to_string converts.  Option<T> is a sequence *)
(* of length at most one: None is << >> and Some(x) is << x >>, so that    *)
(* Some("") and None differ.                                               *)
(***************************************************************************)
EXTENDS Naturals, Sequences, FiniteSets, TLC

VARIABLES
    url,            \* CredentialHelper.url
    protocol,       \* CredentialHelper.protocol : Option<String>
    host,           \* CredentialHelper.host : Option<String>
    username,       \* CredentialHelper.username : Option<String>
    commands,       \* CredentialHelper.commands : Vec<String>
    config,         \* the Config object handed to config(): key -> Result<&str>
    env,            \* the machine: the name of what its helper processes can do
    pc,             \* where the caller of the object is
    cur_username,   \* execute's local `username`
    password,       \* execute's local `password`
    idx,            \* position of execute's iterator in commands (1-based)
    child,          \* the spawned process execute_cmd waits for, if any
    log,            \* history: one record per execute_cmd call of this execute
    result,         \* the value the last execute returned
    output,         \* the bytes the last execute_cmd handed to parse_output
    discarded,      \* the bytes the last execute_cmd captured and dropped
                    \* for an exit status that was not zero
    raw,            \* history: the argument of add_command behind each command
    queried,        \* history: the keys the last config() passed to get_str
    alive,          \* the helper processes that run: the positions of their
                    \* commands
    previous        \* history: what the execute before this one returned, if
                    \* there was one since the object last changed (kept
                    \* on the machine whose helpers are without state)

vars == << url, protocol, host, username, commands, config, env, pc,
           cur_username, password, idx, child, log, result, output, discarded,
           raw, queried, alive, previous >>

----------------------------------------------------------------------------
(* Bounds of the model *)

MaxCommands == 3
MaxLines == 2

----------------------------------------------------------------------------
(* Option and Result *)

None == << >>
Some(x) == << x >>
is_some(o) == o # None
is_none(o) == o = None
unwrap(o) == o[1]

Ok(v) == [ok |-> TRUE, val |-> v]
Err(e) == [ok |-> FALSE, val |-> <<e>>]
\* Result::ok
ok(r) == IF r.ok THEN Some(r.val) ELSE None
\* Option::or_else, with the closure's value passed in
or_else(o, other) == IF is_some(o) THEN o ELSE other

----------------------------------------------------------------------------
(* Bytes and strings *)

\* the bytes of the model that are not ASCII: the two bytes of U+00E9 and a
\* byte that occurs in no UTF-8 text
NonAscii == {"C3", "A9", "FF"}
Utf8Lead2 == {"C3"}
Utf8Continuation == {"A9"}

starts_with(s, prefix) ==
    /\ Len(s) >= Len(prefix)
    /\ SubSeq(s, 1, Len(prefix)) = prefix

\* str::is_char_boundary(n), n a 0-based byte offset
is_char_boundary(s, n) ==
    \/ n = Len(s)
    \/ /\ n < Len(s)
       /\ s[n + 1] \notin Utf8Continuation

\* s[n..]: defined when !SliceFromPanics(s, n)
SliceFromPanics(s, n) == ~ is_char_boundary(s, n)
SliceFrom(s, n) == SubSeq(s, n + 1, Len(s))

\* str::to_string, String::from_utf8: the String of the bytes
RECURSIVE to_string(_)
to_string(s) == IF s = << >> THEN "" ELSE Head(s) \o to_string(Tail(s))

\* Option::map(|s| s.to_string())
map_to_string(o) == IF is_some(o) THEN Some(to_string(unwrap(o))) ELSE None

\* first position of byte b in s, 0 when there is none
RECURSIVE Position(_, _, _)
Position(s, b, from) ==
    IF from > Len(s) THEN 0
    ELSE IF s[from] = b THEN from
    ELSE Position(s, b, from + 1)

\* the byte strings b"username" and b"password"
B_username == <<"u", "s", "e", "r", "n", "a", "m", "e">>
B_password == <<"p", "a", "s", "s", "w", "o", "r", "d">>

\* the setting names
S_username == "username"
S_helper == "helper"

----------------------------------------------------------------------------
(* URL parsing: UrlParser::new().scheme_type_mapper(mapper).parse(url) *)

Letters == {"a", "b", "c", "d", "e", "f", "g", "h", "i", "j", "k", "l", "m",
            "n", "o", "p", "q", "r", "s", "t", "u", "v", "w", "x", "y", "z"}
UpperToLower == [c \in {"H", "X"} |-> IF c = "H" THEN "h" ELSE "x"]
SchemeChars == Letters \cup DOMAIN UpperToLower \cup {"+", "-", "."}

to_lowercase(s) ==
    [k \in 1..Len(s) |-> IF s[k] \in DOMAIN UpperToLower
                         THEN UpperToLower[s[k]] ELSE s[k]]

\* the schemes whose URLs have a host: git and ssh by the mapper of new(),
\* the others by url::whatwg_scheme_type_mapper
RelativeSchemes ==
    { <<"g", "i", "t">>, <<"s", "s", "h">>,
      <<"h", "t", "t", "p">>, <<"h", "t", "t", "p", "s">>,
      <<"f", "t", "p">>, <<"f", "i", "l", "e">>,
      <<"g", "o", "p", "h", "e", "r">>, <<"w", "s">>, <<"w", "s", "s">> }

mapper(s) == IF s \in RelativeSchemes THEN "Relative" ELSE "NonRelative"

\* length of the longest prefix of s that has none of the bytes of stop
RECURSIVE SpanUntil(_, _)
SpanUntil(s, stop) ==
    IF s = << >> \/ Head(s) \in stop THEN 0
    ELSE 1 + SpanUntil(Tail(s), stop)

RECURSIVE SkipSlashes(_)
SkipSlashes(s) ==
    IF s # << >> /\ Head(s) \in {"/", "\\"} THEN SkipSlashes(Tail(s)) ELSE s

\* Ok([scheme, host]) with host an Option (Some for a Host::Domain only), or
\* Err: no scheme, or a relative scheme with an empty host
parse(u) ==
    LET colon == Position(u, ":", 1)
        scheme == SubSeq(u, 1, colon - 1)
        rest == SubSeq(u, colon + 1, Len(u))
    IN  IF \/ colon <= 1
           \/ scheme[1] \notin (Letters \cup DOMAIN UpperToLower)
           \/ \E k \in 1..Len(scheme) : scheme[k] \notin SchemeChars
        THEN Err("RelativeUrlWithoutBase")
        ELSE IF mapper(to_lowercase(scheme)) = "NonRelative"
        THEN Ok([scheme |-> to_lowercase(scheme), host |-> None])
        ELSE LET auth == SkipSlashes(rest)
                 name == SubSeq(auth, 1,
                                SpanUntil(auth, {"/", "\\", "?", "#", ":"}))
             IN  IF auth # << >> /\ Head(auth) = "["
                 THEN Ok([scheme |-> to_lowercase(scheme), host |-> None])
                 ELSE IF name = << >>
                 THEN Err("EmptyHost")
                 ELSE Ok([scheme |-> to_lowercase(scheme),
                          host |-> Some(to_lowercase(name))])

\* CredentialHelper::new: the fields of the new object
new(u) ==
    LET parsed_url == parse(u)
    IN  [ url |-> to_string(u),
          protocol |-> IF parsed_url.ok
                       THEN Some(to_string(parsed_url.val.scheme)) ELSE None,
          host |-> IF parsed_url.ok
                   THEN map_to_string(parsed_url.val.host) ELSE None,
          username |-> None,
          commands |-> << >> ]

----------------------------------------------------------------------------
(* Configuration keys and lookups *)

\* CredentialHelper::exact_key
exact_key(u, name) == "credential." \o u \o "." \o name

\* url_key that formats an unknown protocol or host as the empty string
url_key_empty_parts(h, p, name) ==
    Some("credential." \o (IF is_some(p) THEN unwrap(p) ELSE "") \o "://"
         \o (IF is_some(h) THEN unwrap(h) ELSE "") \o "." \o name)

\* CredentialHelper::url_key
url_key(h, p, name) ==
    IF is_some(h) /\ is_some(p)
    THEN Some("credential." \o unwrap(p) \o "://" \o unwrap(h) \o "." \o name)
    ELSE None

global_key(name) == "credential." \o name

\* Config::get_str: a key the configuration does not hold is an error
get_str(cfg, key) ==
    IF key \in DOMAIN cfg THEN cfg[key] ELSE Err("NotFound")

\* config_username that prefers the global key
config_username_global_first(self, cfg) ==
    [ username |-> map_to_string(
                       or_else(ok(get_str(cfg, global_key(S_username))),
                               ok(get_str(cfg, exact_key(self.url, S_username))))),
      queried |-> <<global_key(S_username), exact_key(self.url, S_username)>> ]

\* CredentialHelper::config_username: the new username, and the keys that
\* were looked up (or_else runs its closure only on None)
config_username(self, cfg) ==
    LET key == exact_key(self.url, S_username)
        first == ok(get_str(cfg, key))
        ukey == url_key(self.host, self.protocol, S_username)
        asked2 == is_none(first) /\ is_some(ukey)
        second == or_else(first,
                          IF is_some(ukey) THEN ok(get_str(cfg, unwrap(ukey)))
                          ELSE None)
        asked3 == is_none(second)
        third == or_else(second, ok(get_str(cfg, global_key(S_username))))
    IN  [ username |-> map_to_string(third),
          queried |-> <<key>>
                      \o (IF asked2 THEN <<unwrap(ukey)>> ELSE << >>)
                      \o (IF asked3 THEN <<global_key(S_username)>> ELSE << >>) ]

\* add_command that pushes a `!` value whole
add_command_keeps_bang(acc, cmd) ==
    IF acc.panic \/ is_none(cmd) THEN acc
    ELSE LET s == unwrap(cmd)
         IN  IF starts_with(s, <<"!">>)
             THEN [acc EXCEPT !.commands = Append(@, to_string(s)),
                              !.raw = Append(@, s)]
             ELSE IF starts_with(s, <<"/">>) \/ starts_with(s, <<"\\">>)
             THEN [acc EXCEPT !.commands = Append(@, "\"" \o to_string(s) \o "\""),
                              !.raw = Append(@, s)]
             ELSE IF SliceFromPanics(s, 1)
             THEN [acc EXCEPT !.panic = TRUE]
             ELSE IF starts_with(SliceFrom(s, 1), <<":", "\\">>)
             THEN [acc EXCEPT !.commands = Append(@, "\"" \o to_string(s) \o "\""),
                              !.raw = Append(@, s)]
             ELSE [acc EXCEPT !.commands = Append(@, "git credential-" \o to_string(s)),
                              !.raw = Append(@, s)]

\* CredentialHelper::add_command on (commands, raw); panic is set when the
\* slice cmd[1..] is taken of a string that has no character boundary at 1
add_command(acc, cmd) ==
    IF acc.panic \/ is_none(cmd) THEN acc
    ELSE LET s == unwrap(cmd)
         IN  IF starts_with(s, <<"!">>)
             THEN [acc EXCEPT !.commands = Append(@, to_string(SliceFrom(s, 1))),
                              !.raw = Append(@, s)]
             ELSE IF starts_with(s, <<"/">>) \/ starts_with(s, <<"\\">>)
             THEN [acc EXCEPT !.commands = Append(@, "\"" \o to_string(s) \o "\""),
                              !.raw = Append(@, s)]
             ELSE IF SliceFromPanics(s, 1)
             THEN [acc EXCEPT !.panic = TRUE]
             ELSE IF starts_with(SliceFrom(s, 1), <<":", "\\">>)
             THEN [acc EXCEPT !.commands = Append(@, "\"" \o to_string(s) \o "\""),
                              !.raw = Append(@, s)]
             ELSE [acc EXCEPT !.commands = Append(@, "git credential-" \o to_string(s)),
                              !.raw = Append(@, s)]

\* CredentialHelper::config_helper: commands (and raw) after the three
\* add_command calls, whether one of them panicked, and the keys looked up
config_helper(self, cfg) ==
    LET ekey == exact_key(self.url, S_helper)
        exact == get_str(cfg, ekey)
        acc0 == [commands |-> self.commands, raw |-> self.raw, panic |-> FALSE]
        acc1 == add_command(acc0, ok(exact))
        ukey == url_key(self.host, self.protocol, S_helper)
        asked2 == ~ acc1.panic /\ is_some(ukey)
        acc2 == IF is_some(ukey)
                THEN add_command(acc1, ok(get_str(cfg, unwrap(ukey))))
                ELSE acc1
        asked3 == ~ acc2.panic
        acc3 == add_command(acc2, ok(get_str(cfg, global_key(S_helper))))
    IN  [ commands |-> acc3.commands,
          raw |-> acc3.raw,
          panic |-> acc3.panic,
          queried |-> <<ekey>>
                      \o (IF asked2 THEN <<unwrap(ukey)>> ELSE << >>)
                      \o (IF asked3 THEN <<global_key(S_helper)>> ELSE << >>) ]

self == [ url |-> url, protocol |-> protocol, host |-> host,
          username |-> username, commands |-> commands, raw |-> raw ]

----------------------------------------------------------------------------
(* Response parsing *)

\* slice::split on the byte sep: the pieces between the separators
RECURSIVE split(_, _)
split(s, sep) ==
    LET k == Position(s, sep, 1)
    IN  IF k = 0 THEN <<s>>
        ELSE <<SubSeq(s, 1, k - 1)>> \o split(SubSeq(s, k + 1, Len(s)), sep)

\* a split at every sep
splitn1_every(s, sep) == split(s, sep)

\* slice::splitn(1, ..) on the byte sep: at most one split, at the first sep
splitn1(s, sep) ==
    LET k == Position(s, sep, 1)
    IN  IF k = 0 THEN <<s>>
        ELSE <<SubSeq(s, 1, k - 1), SubSeq(s, k + 1, Len(s))>>

\* String::from_utf8 succeeds
RECURSIVE from_utf8_ok(_)
from_utf8_ok(b) ==
    IF b = << >> THEN TRUE
    ELSE IF Head(b) \notin NonAscii THEN from_utf8_ok(Tail(b))
    ELSE IF Head(b) \in Utf8Lead2 /\ Len(b) >= 2 /\ b[2] \in Utf8Continuation
    THEN from_utf8_ok(Tail(Tail(b)))
    ELSE FALSE

\* parse_line that keeps the first value of a key
parse_line_first_wins(acc, line) ==
    LET parts == splitn1(line, "=")
        key == parts[1]
    IN  IF Len(parts) < 2 THEN acc
        ELSE IF ~ from_utf8_ok(parts[2]) THEN acc
        ELSE IF key = B_username /\ is_none(acc[1])
        THEN <<Some(to_string(parts[2])), acc[2]>>
        ELSE IF key = B_password /\ is_none(acc[2])
        THEN <<acc[1], Some(to_string(parts[2]))>>
        ELSE acc

\* the body of parse_output's loop for one line, on the pair so far
parse_line(acc, line) ==
    LET parts == splitn1(line, "=")
        key == parts[1]
    IN  IF Len(parts) < 2 THEN acc
        ELSE IF ~ from_utf8_ok(parts[2]) THEN acc
        ELSE IF key = B_username THEN <<Some(to_string(parts[2])), acc[2]>>
        ELSE IF key = B_password THEN <<acc[1], Some(to_string(parts[2]))>>
        ELSE acc

RECURSIVE parse_lines(_, _)
parse_lines(acc, lines) ==
    IF lines = << >> THEN acc
    ELSE parse_lines(parse_line(acc, Head(lines)), Tail(lines))

\* CredentialHelper::parse_output: the pair (username, password)
parse_output(out) == parse_lines(<<None, None>>, split(out, "\n"))

----------------------------------------------------------------------------
(* Helper processes *)

\* the shell line execute_cmd hands to `sh -c`
shell_line(cmd) == cmd \o " get"

\* stdin_lines with the host line before the protocol line
stdin_lines_host_first(p, h, u) ==
    (IF is_some(h) THEN <<"host=" \o unwrap(h)>> ELSE << >>)
    \o (IF is_some(p) THEN <<"protocol=" \o unwrap(p)>> ELSE << >>)
    \o (IF is_some(u) THEN <<"username=" \o unwrap(u)>> ELSE << >>)

\* the lines execute_cmd writes to the child's stdin
stdin_lines(p, h, u) ==
    (IF is_some(p) THEN <<"protocol=" \o unwrap(p)>> ELSE << >>)
    \o (IF is_some(h) THEN <<"host=" \o unwrap(h)>> ELSE << >>)
    \o (IF is_some(u) THEN <<"username=" \o unwrap(u)>> ELSE << >>)

\* `let _ = writeln!(stdin, ..)` for each of the lines, on a pipe that takes n
\* lines before its reader is gone: the lines that reach the child, and
\* whether a write failed (the failures are dropped)
writeln_all(lines, n) ==
    [ stdin |-> SubSeq(lines, 1, IF n < Len(lines) THEN n ELSE Len(lines)),
      write_err |-> n < Len(lines) ]

\* execute_cmd with the test of the exit status inverted
execute_cmd_result_inverted_status(o) ==
    IF o.kind = "wait_err" THEN <<None, None>>
    ELSE IF o.success THEN <<None, None>>
    ELSE parse_output(o.stdout)

\* execute_cmd that parses the output whatever the exit status
execute_cmd_result_any_status(o) ==
    IF o.kind = "wait_err" THEN <<None, None>> ELSE parse_output(o.stdout)

\* what execute_cmd returns once the child is gone: o is what wait_with_output
\* gave, an I/O error or an exit status with the captured stdout
execute_cmd_result(o) ==
    IF o.kind = "wait_err" THEN <<None, None>>
    ELSE IF ~ o.success THEN <<None, None>>
    ELSE parse_output(o.stdout)

\* execute, lines 268-274: the locals after the reply (u, p) of one helper
\* the merge with the latest username winning
merge_username_last(cur, u) == IF is_some(u) THEN u ELSE cur
\* the merge with an empty username taken for an absent one
merge_username_fills_empty(cur, u) ==
    IF is_some(u) /\ (is_none(cur) \/ cur = Some("")) THEN u ELSE cur
merge_username(cur, u) == IF is_some(u) /\ is_none(cur) THEN u ELSE cur
merge_password(cur, p) == IF is_some(p) /\ is_none(cur) THEN p ELSE cur
\* the loop without its break
loop_never_breaks(u, p) == FALSE
loop_breaks(u, p) == is_some(u) /\ is_some(p)

\* the match of execute with a username enough for a pair
execute_result_username_only(u, p) ==
    IF is_some(u)
    THEN Some(<<unwrap(u), IF is_some(p) THEN unwrap(p) ELSE "">>)
    ELSE None

\* execute, lines 277-280
execute_result(u, p) ==
    IF is_some(u) /\ is_some(p) THEN Some(<<unwrap(u), unwrap(p)>>) ELSE None

\* how a helper process starts out: it cannot be spawned, it runs and never
\* ends, or it runs and ends
start_of(o) == IF o.kind \in {"spawn_err", "hang"} THEN o.kind ELSE "run"

\* a wait that gives up on a process that does not end
blocks_until_timeout(process) == FALSE

\* wait_with_output has no timeout: it does not return while the process runs
blocks(process) == process.hangs

\* a wait that returns while the process still runs
reap_nothing(processes, id) == processes

\* wait_with_output returns when the process is gone
reap(processes, id) == processes \ {id}

\* an execute that keeps the username it found in the object
self_username_stores_found(self_username, found) == found

\* execute borrows the object as `&self` and works on a clone of its
\* username: the object's username after the call
self_username_after(self_username, found) == self_username

\* execute as a function of the object's username and of the replies that
\* execute_cmd gives for the commands, in order
RECURSIVE execute_on(_, _, _)
execute_on(u, p, replies) ==
    IF replies = << >> THEN execute_result(u, p)
    ELSE LET u2 == merge_username(u, Head(replies)[1])
             p2 == merge_password(p, Head(replies)[2])
         IN  IF loop_breaks(u2, p2) THEN execute_result(u2, p2)
             ELSE execute_on(u2, p2, Tail(replies))

----------------------------------------------------------------------------
(* Inputs: URLs, configurations and helper behaviours *)

U_https == <<"h", "t", "t", "p", "s", ":", "/", "/", "H", "/", "p">>
U_git == <<"g", "i", "t", ":", "/", "/", "h">>
U_bad == <<"n", "o", "u", "r", "l">>
U_nonrel == <<"x", ":", "y">>
Urls == {U_https, U_git, U_bad, U_nonrel}

\* the key credential.<protocol>://<host>.<name> would be with an unknown
\* protocol or host left empty: held by the configurations, never looked up
pattern_key(u, name) ==
    LET h == new(u)
    IN  "credential." \o (IF is_some(h.protocol) THEN unwrap(h.protocol) ELSE "")
        \o "://" \o (IF is_some(h.host) THEN unwrap(h.host) ELSE "")
        \o "." \o name

\* a configuration: the entries of the keys that concern u (an exact-URL
\* entry comes first in the file when two keys coincide)
make_config(u, eh, ph, gh, eu, pu, gu) ==
    LET entries == << <<exact_key(to_string(u), S_helper), eh>>,
                      <<pattern_key(u, S_helper), ph>>,
                      <<global_key(S_helper), gh>>,
                      <<exact_key(to_string(u), S_username), eu>>,
                      <<pattern_key(u, S_username), pu>>,
                      <<global_key(S_username), gu>> >>
        first(k) == CHOOSE n \in 1..Len(entries) :
                        /\ entries[n][1] = k
                        /\ \A m \in 1..(n - 1) : entries[m][1] # k
    IN  [k \in {entries[n][1] : n \in 1..Len(entries)} |-> entries[first(k)][2]]

NotFound == Err("NotFound")
LookupError == Err("Other")

ExactHelpers == {NotFound, Ok(<<"!", "a">>), Ok(<<"/", "p">>), Ok(<< >>)}
PatternHelpers == {NotFound, Ok(<<"n">>)}
GlobalHelpers == {NotFound, LookupError, Ok(<<"!", "/", "b">>), Ok(<< >>)}
\* helper values of every form that add_command tells apart: paths with a
\* slash, a backslash and a drive, look-alikes of a drive path, names, `!`
\* alone, a name that starts with U+00E9 and the empty value
HelperValues ==
    { Ok(<<"/", "p">>), Ok(<<"\\", "p">>), Ok(<<"c", ":", "\\", "p">>),
      Ok(<<"1", ":", "\\", "p">>), Ok(<<"c", ":", "p">>), Ok(<<"a">>),
      Ok(<<"n", "-", "x">>), Ok(<<"!">>), Ok(<<"!", "c", ":", "\\", "p">>),
      Ok(<<"C3", "A9">>), Ok(<< >>) }

ExactUsernames == {NotFound, Ok(<<"a">>)}
PatternUsernames == {LookupError, Ok(<<"b">>)}
GlobalUsernames == {NotFound, Ok(<<"c">>)}

\* the values a caller passes to username(); the empty username is passed
\* on the machine whose helpers may print one
UsernameInputs ==
    {None, Some(<<"s">>)} \cup (IF env = "leaky" THEN {Some(<< >>)} ELSE {})

exit(success, stdout) == [kind |-> "exit", success |-> success, stdout |-> stdout]
spawn_err == [kind |-> "spawn_err", success |-> FALSE, stdout |-> << >>]
wait_err == [kind |-> "wait_err", success |-> FALSE, stdout |-> << >>]
hang == [kind |-> "hang", success |-> FALSE, stdout |-> << >>]

O_full == <<"u", "s", "e", "r", "n", "a", "m", "e", "=", "u", "\n", "p", "a", "s", "s", "w", "o", "r", "d", "=", "p", "\n">>
O_user == <<"u", "s", "e", "r", "n", "a", "m", "e", "=", "v", "\n">>
O_pass == <<"p", "a", "s", "s", "w", "o", "r", "d", "=", "q", "\n">>
O_other == <<"q", "u", "i", "t", "=", "1", "\n">>
O_blank == <<"u", "s", "e", "r", "n", "a", "m", "e", "=", "\n">>
\* a password with a `=` in it, a key that ends like `username`, and a
\* username that is no UTF-8 text
O_mixed ==
    B_password \o <<"=", "p", "=", "q", "\n">>
        \o <<"x">> \o B_username \o <<"=", "c", "\n">>
        \o B_username \o <<"=", "FF", "\n">>

\* the lines a helper prints: two usernames, a password, a username that is
\* no UTF-8 text, and a line without `=`
ReplyLines ==
    { B_username \o <<"=", "a">>, B_username \o <<"=", "b">>,
      B_password \o <<"=", "p">>, B_username \o <<"=", "FF">>,
      <<"j", "u", "n", "k">> }

\* the outputs of at most n of these lines, each ended by a line feed
RECURSIVE OutputsOf(_)
OutputsOf(n) ==
    IF n = 0 THEN {<< >>}
    ELSE OutputsOf(n - 1)
         \cup {l \o <<"\n">> \o o : l \in ReplyLines, o \in OutputsOf(n - 1)}

\* how many lines the stdin pipe of a helper takes before the helper stops
\* reading, for each kind of machine (3: it takes all that execute_cmd writes)
Pipes(e) == IF e = "leaky" THEN {1, 3} ELSE {3}

\* what a helper process can do when run, for each kind of machine
Behaviours(e) ==
    CASE e = "plain" -> {spawn_err, exit(TRUE, O_pass), exit(TRUE, O_full)}
      [] e = "leaky" -> {exit(TRUE, O_user), exit(TRUE, O_full),
                         exit(TRUE, O_blank), exit(TRUE, O_mixed)}
      [] e = "stalling" -> {spawn_err, hang, exit(TRUE, O_user),
                            exit(TRUE, O_pass)}
      [] e = "failing" -> {spawn_err, wait_err, exit(FALSE, O_full),
                           exit(TRUE, O_full), exit(TRUE, O_user),
                           exit(TRUE, O_pass), exit(TRUE, O_other)}
      [] e = "printing" -> {spawn_err} \cup {exit(TRUE, o) : o \in OutputsOf(MaxLines)}

\* a machine whose helpers are programs without state: what each does is
\* fixed by its shell line and by the lines it reads
scripted(line, stdin) ==
    CASE line = "a get" ->
             IF \E n \in 1..Len(stdin) : stdin[n] = "username=v"
             THEN exit(TRUE, O_pass) ELSE exit(TRUE, O_user)
      [] line = "git credential-n get" -> exit(FALSE, O_full)
      [] line = "/b get" -> exit(TRUE, O_full)
      [] OTHER -> spawn_err

\* what the helper run as `line` can do on the machine e when offered stdin
Outcomes(e, line, stdin) ==
    IF e = "scripted" THEN {scripted(line, stdin)} ELSE Behaviours(e)


----------------------------------------------------------------------------
(* The state machine *)

InitWith(u, cfg, e) ==
    /\ url = new(u).url
    /\ protocol = new(u).protocol
    /\ host = new(u).host
    /\ username = new(u).username
    /\ commands = new(u).commands
    /\ config = cfg
    /\ env = e
    /\ pc = "idle"
    /\ cur_username = None
    /\ password = None
    /\ idx = 1
    /\ child = None
    /\ log = << >>
    /\ result = None
    /\ output = None
    /\ discarded = None
    /\ raw = << >>
    /\ queried = << >>
    /\ alive = {}
    /\ previous = None

\* every URL and configuration, with helpers that answer or cannot be run
InitConfig ==
    \E u \in Urls, eh \in ExactHelpers, ph \in PatternHelpers,
       gh \in GlobalHelpers, eu \in ExactUsernames, pu \in PatternUsernames,
       gu \in GlobalUsernames :
        InitWith(u, make_config(u, eh, ph, gh, eu, pu, gu), "plain")

\* one URL with up to three plain helpers, which fail in every way
InitExec ==
    \E eh \in {NotFound, Ok(<<"!", "a">>)}, ph \in PatternHelpers,
       gh \in {NotFound, Ok(<<"!", "/", "b">>)}, gu \in GlobalUsernames :
        InitWith(U_https,
                 make_config(U_https, eh, ph, gh, NotFound, NotFound, gu),
                 "failing")

\* one URL with one helper, which prints any lines
InitParse ==
    InitWith(U_https,
             make_config(U_https, NotFound, NotFound, Ok(<<"!", "/", "b">>),
                         NotFound, NotFound, NotFound),
             "printing")

\* one URL with up to three helpers, which are programs without state
InitScripted ==
    \E eh \in {NotFound, Ok(<<"!", "a">>), Ok(<<"/", "p">>)},
       ph \in PatternHelpers, gh \in {NotFound, Ok(<<"!", "/", "b">>)},
       gu \in GlobalUsernames \cup {Ok(<< >>)} :
        InitWith(U_https,
                 make_config(U_https, eh, ph, gh, NotFound, NotFound, gu),
                 "scripted")

\* one URL without a host and helper values of every form
InitCommands ==
    \E eh \in HelperValues, gh \in {NotFound, Ok(<<"n">>)} :
        InitWith(U_nonrel,
                 make_config(U_nonrel, eh, NotFound, gh, NotFound, NotFound,
                             NotFound),
                 "plain")

\* one URL with up to three helpers, which may never end
InitStall ==
    \E eh \in {NotFound, Ok(<<"!", "a">>)}, ph \in PatternHelpers,
       gh \in {NotFound, Ok(<<"!", "/", "b">>)} :
        InitWith(U_https,
                 make_config(U_https, eh, ph, gh, NotFound, NotFound, NotFound),
                 "stalling")

\* one URL with up to two helpers, which may stop reading their input and
\* may print an empty username
InitLeaky ==
    \E eh \in {NotFound, Ok(<<"!", "a">>)},
       gh \in {NotFound, Ok(<<"!", "/", "b">>)} :
        InitWith(U_https,
                 make_config(U_https, eh, NotFound, gh, NotFound, NotFound,
                             NotFound),
                 "leaky")

Init ==
    \/ InitConfig
    \/ InitExec
    \/ InitParse
    \/ InitScripted
    \/ InitCommands
    \/ InitStall
    \/ InitLeaky

\* no call on the object is in progress
Idle == pc \in {"idle", "done"}

\* CredentialHelper::username
Username ==
    /\ Idle
    /\ \E x \in UsernameInputs : username' = map_to_string(x)
    /\ pc' = "idle"
    /\ result' = None
    /\ log' = << >>
    /\ output' = None
    /\ discarded' = None
    /\ previous' = None
    /\ UNCHANGED << url, protocol, host, commands, config, env, cur_username,
                    password, idx, child, raw, queried, alive >>

\* CredentialHelper::config
Config ==
    LET cu == IF is_none(username) THEN config_username(self, config)
              ELSE [username |-> username, queried |-> << >>]
        ch == config_helper([self EXCEPT !.username = cu.username], config)
    IN  /\ Idle
        /\ Len(ch.commands) <= MaxCommands
        /\ username' = cu.username
        /\ commands' = ch.commands
        /\ raw' = ch.raw
        /\ queried' = cu.queried \o ch.queried
        /\ pc' = IF ch.panic THEN "panicked" ELSE "idle"
        /\ result' = None
        /\ log' = << >>
        /\ output' = None
        /\ discarded' = None
        /\ previous' = None
        /\ UNCHANGED << url, protocol, host, config, env, cur_username,
                        password, idx, child, alive >>

\* execute, lines 264-265
ExecuteBegin ==
    /\ Idle
    /\ pc' = "loop"
    /\ cur_username' = username
    /\ password' = None
    /\ idx' = 1
    /\ log' = << >>
    /\ result' = None
    /\ output' = None
    /\ discarded' = None
    /\ previous' = IF env = "scripted" THEN result ELSE None
    /\ UNCHANGED << url, protocol, host, username, commands, config, env,
                    child, raw, queried, alive >>

\* the end of one execute_cmd call and the rest of the loop body
Merged(entry) ==
    /\ log' = Append(log, entry)
    /\ cur_username' = merge_username(cur_username, entry.reply[1])
    /\ password' = merge_password(password, entry.reply[2])
    /\ pc' = IF loop_breaks(cur_username', password') THEN "break" ELSE "loop"

\* execute_cmd, lines 291-313: the next command is spawned and written to,
\* or cannot be spawned
Spawn ==
    /\ pc = "loop"
    /\ idx <= Len(commands)
    /\ idx' = idx + 1
    /\ \E start \in {start_of(o) :
                        o \in Outcomes(env, shell_line(commands[idx]),
                                       stdin_lines(protocol, host, cur_username))},
          n \in Pipes(env) :
        IF start # "spawn_err"
        THEN LET w == writeln_all(stdin_lines(protocol, host, cur_username), n)
             IN  /\ child' = Some([cmd |-> idx,
                                   line |-> shell_line(commands[idx]),
                                   stdin |-> w.stdin,
                                   write_err |-> w.write_err,
                                   hangs |-> start = "hang"])
                 /\ alive' = alive \cup {idx}
                 /\ pc' = "wait"
                 /\ UNCHANGED << log, cur_username, password >>
        ELSE /\ Merged([cmd |-> idx, line |-> shell_line(commands[idx]),
                        stdin |-> << >>, write_err |-> FALSE,
                        kind |-> "spawn_err",
                        success |-> FALSE, reply |-> <<None, None>>])
             /\ UNCHANGED << child, alive >>
    /\ output' = None
    /\ discarded' = None
    /\ UNCHANGED << url, protocol, host, username, commands, config, env,
                    result, raw, queried, previous >>

\* execute_cmd, lines 314-316: the child ends and its output is parsed
Wait ==
    /\ pc = "wait"
    /\ ~ blocks(unwrap(child))
    /\ \E o \in {x \in Outcomes(env, unwrap(child).line, unwrap(child).stdin) :
                    start_of(x) = "run"} :
       \E reply \in {execute_cmd_result(o)} :
        /\ Merged([cmd |-> unwrap(child).cmd, line |-> unwrap(child).line,
                   stdin |-> unwrap(child).stdin,
                   write_err |-> unwrap(child).write_err, kind |-> o.kind,
                   success |-> o.success, reply |-> reply])
        /\ output' = IF o.kind = "exit" /\ o.success THEN Some(o.stdout) ELSE None
        /\ discarded' = IF o.kind = "exit" /\ ~ o.success THEN Some(o.stdout)
                        ELSE None
    /\ child' = None
    /\ alive' = reap(alive, unwrap(child).cmd)
    /\ UNCHANGED << url, protocol, host, username, commands, config, env,
                    idx, result, raw, queried, previous >>

\* execute, lines 276-280: the loop is over
Return ==
    /\ \/ pc = "break"
       \/ pc = "loop" /\ idx > Len(commands)
    /\ result' = Some(execute_result(cur_username, password))
    /\ pc' = "done"
    /\ username' = self_username_after(username, cur_username)
    /\ UNCHANGED << url, protocol, host, commands, config, env,
                    cur_username, password, idx, child, log, output,
                    discarded, raw, queried, alive, previous >>

Next == Username \/ Config \/ ExecuteBegin \/ Spawn \/ Wait \/ Return

Spec == Init /\ [][Next]_vars

\* the machine whose helpers may never end: execute runs on when it can,
\* and a helper process that is not one that never ends does end
LiveSpec ==
    /\ InitStall
    /\ [][Next]_vars
    /\ WF_vars(Spawn) /\ WF_vars(Wait) /\ WF_vars(Return)

----------------------------------------------------------------------------
(* Properties *)

\* an execute call has begun and its locals and log are those of that call
InExecute == pc \in {"loop", "wait", "break", "done"}

\* the execute call returned a pair
Found == pc = "done" /\ is_some(unwrap(result))

\* the field k (1 username, 2 password) of the earliest successful reply of
\* the log that has one, None when no reply has
FirstReported(k) ==
    LET has == {j \in 1..Len(log) : log[j].success /\ is_some(log[j].reply[k])}
    IN  IF has = {} THEN None
        ELSE log[CHOOSE j \in has : \A m \in has : j <= m].reply[k]

\* C1: at every point of execute the username is the pre-seeded one if there
\* is one and otherwise that of the earliest helper whose successful reply
\* has one, the password is that of the earliest helper whose successful
\* reply has one, and a returned pair is made of exactly these two.
C1_FirstWinsPerField ==
    InExecute =>
        /\ cur_username = IF is_some(username) THEN username ELSE FirstReported(1)
        /\ password = FirstReported(2)
        /\ Found => unwrap(result) = Some(<<unwrap(cur_username), unwrap(password)>>)

\* the precedence test: the first helper gave a username only, a later one
\* gave both, and the pair has the first's username and the later's password
C1_Witness ==
    /\ Found
    /\ is_none(username)
    /\ Len(log) >= 2
    /\ log[1].reply = <<Some("v"), None>>
    /\ log[Len(log)].reply = <<Some("u"), Some("p")>>
    /\ unwrap(result) = Some(<<"v", "p">>)

\* the number of commands execute_cmd was called for, the running one included
Invoked == Len(log) + Len(child)

\* both fields are known after the first k helpers
KnownAfter(k) ==
    /\ is_some(username) \/ \E j \in 1..k : is_some(log[j].reply[1])
    /\ \E j \in 1..k : is_some(log[j].reply[2])

\* C2 (state part): the invoked commands are a prefix of commands, each
\* invoked once, a helper is invoked only while a field was unknown after
\* the one before it, and with both fields known the loop has been left.
C2_PrefixInvoked ==
    InExecute =>
        /\ Invoked <= Len(commands)
        /\ \A k \in 1..Len(log) : log[k].cmd = k
        /\ is_some(child) => unwrap(child).cmd = Len(log) + 1
        /\ \A k \in 1..(Invoked - 1) : ~ KnownAfter(k)
        /\ (Len(log) > 0 /\ KnownAfter(Len(log))) => pc \in {"break", "done"}

\* C2 (step part): once the loop has been left with both fields known, the
\* only step of this execute is its return, and nothing more is invoked
C2_NoStepAfterBreak ==
    pc = "break" => (pc' = "done" /\ log' = log /\ child' = None)

\* C2: short-circuit. During execute the invoked commands are always a
\* prefix of commands, each invoked once; helper i+1 is invoked only if a
\* field was unknown after helper i; once both are known no later command
\* is invoked.
C2_ShortCircuit == [](C2_PrefixInvoked) /\ [][C2_NoStepAfterBreak]_vars

\* execute returned a pair and left a command of the list uninvoked
C2_Witness == Found /\ Len(log) >= 1 /\ Len(log) < Len(commands)

\* C3: across new, username(..), config(..) and execute, once username is
\* set no step replaces it by another value or resets it to None.
C3_UsernameNeverReplaced == [][is_some(username) => username' = username]_vars

\* the replies of the helpers of the log that were run and exited with
\* status zero, in order
SuccessfulReplies ==
    LET s == SelectSeq(log, LAMBDA e : e.kind = "exit" /\ e.success)
    IN  [k \in 1..Len(s) |-> s[k].reply]

\* C4: execute returns what it would return for the list without the helpers
\* that could not be spawned, could not be waited for or exited non-zero, and
\* it leaves a command uninvoked only when it returns a pair.
C4_FailingHelperSkipped ==
    pc = "done" =>
        /\ unwrap(result) = execute_on(username, None, SuccessfulReplies)
        /\ Len(log) < Len(commands) => Found

\* a helper exited non-zero after printing a pair, a helper could not be
\* spawned, and a later helper supplied the pair that was returned
C4_Witness ==
    /\ Found
    /\ Len(log) = 3
    /\ log[1].kind = "exit" /\ ~ log[1].success
    /\ log[2].kind = "spawn_err"
    /\ log[3].success
    /\ unwrap(result) = Some(<<"u", "p">>)

\* the keys of the setting `name` in the order of gitcredentials: the exact
\* URL, protocol://host when both are known, the global key
ExactKeyOf(name) == "credential." \o url \o "." \o name
PatternKeyOf(name) ==
    "credential." \o (IF is_some(protocol) THEN unwrap(protocol) ELSE "")
        \o "://" \o (IF is_some(host) THEN unwrap(host) ELSE "") \o "." \o name
GlobalKeyOf(name) == "credential." \o name
KeysInOrder(name) ==
    <<ExactKeyOf(name)>>
        \o (IF is_some(protocol) /\ is_some(host)
            THEN <<PatternKeyOf(name)>> ELSE << >>)
        \o <<GlobalKeyOf(name)>>

\* the values the configuration holds at the keys, in the order of the keys
ValuesAt(keys) ==
    LET hit == SelectSeq(keys, LAMBDA k : get_str(config, k).ok)
    IN  [n \in 1..Len(hit) |-> get_str(config, hit[n]).val]

IsPrefix(s, t) == Len(s) <= Len(t) /\ SubSeq(t, 1, Len(s)) = s

\* C5: a config call appends one command for every helper key that has a
\* value, in the order exact, protocol://host, global, after the commands
\* that were there; no step removes or reorders a command.
C5_EveryMatchAppended ==
    [][ /\ IsPrefix(commands, commands')
        /\ Config => /\ raw' = raw \o ValuesAt(KeysInOrder(S_helper))
                     /\ Len(commands') = Len(raw') ]_vars

\* the value of the first of the keys that has one, None when none has
FirstValueAt(keys) ==
    LET v == ValuesAt(keys)
    IN  IF v = << >> THEN None ELSE Some(to_string(v[1]))

\* the keys up to and including the first that has a value, all when none has
UpToFirstHit(keys) ==
    LET hits == {n \in 1..Len(keys) : get_str(config, keys[n]).ok}
    IN  IF hits = {} THEN keys
        ELSE SubSeq(keys, 1, CHOOSE n \in hits : \A m \in hits : n <= m)

IsUsernameKey(k) ==
    k \in { ExactKeyOf(S_username), PatternKeyOf(S_username),
            GlobalKeyOf(S_username) }

\* C6: a config call with username set leaves it and looks up no username
\* key; with username absent it looks the username keys up in the order
\* exact, protocol://host (when both are known), global until one has a
\* value, and username becomes that value, or stays absent when none has.
C6_UsernameFromConfig ==
    [][ Config =>
            IF is_some(username)
            THEN /\ username' = username
                 /\ SelectSeq(queried', IsUsernameKey) = << >>
            ELSE /\ username' = FirstValueAt(KeysInOrder(S_username))
                 /\ SelectSeq(queried', IsUsernameKey)
                        = UpToFirstHit(KeysInOrder(S_username)) ]_vars

\* the exact key missed, the lookup of the protocol://host key failed, and
\* the username is the one of the global key
C6_Witness ==
    /\ is_some(host)
    /\ username = Some("c")
    /\ Len(queried) >= 3
    /\ SubSeq(queried, 1, 3) = KeysInOrder(S_username)
    /\ get_str(config, queried[1]) = NotFound
    /\ get_str(config, queried[2]) = LookupError

\* a short helper name
IsBareName(v) == v # << >> /\ \A k \in 1..Len(v) : v[k] \in Letters \cup {"-"}

\* the shell line of a helper configured as v, by the three rules
LineRule(v, line) ==
    /\ starts_with(v, <<"!">>) => line = to_string(SubSeq(v, 2, Len(v))) \o " get"
    /\ (~ starts_with(v, <<"!">>) /\ starts_with(v, <<"/">>))
           => line = "\"" \o to_string(v) \o "\" get"
    /\ IsBareName(v) => line = "git credential-" \o to_string(v) \o " get"

\* C7: every helper that is run is run as the shell line that the rules
\* `!`, path, name give for its configured value, the first rule that
\* matches deciding.
C7_CommandLines ==
    /\ Len(raw) = Len(commands)
    /\ \A k \in 1..Len(log) : LineRule(raw[log[k].cmd], log[k].line)
    /\ is_some(child) => LineRule(raw[unwrap(child).cmd], unwrap(child).line)

\* a path, a name and a shell expression that starts like a path were run
C7_Witness ==
    /\ Len(log) = 3
    /\ raw = << <<"/", "p">>, <<"n">>, <<"!", "/", "b">> >>
    /\ log[1].line = "\"/p\" get"
    /\ log[2].line = "git credential-n get"
    /\ log[3].line = "/b get"

\* the values of the lines `key=value` of the output whose value is text
ValuesOf(out, key) ==
    LET lines == split(out, "\n")
        hits == SelectSeq(lines,
                    LAMBDA l : /\ starts_with(l, key \o <<"=">>)
                               /\ from_utf8_ok(SubSeq(l, Len(key) + 2, Len(l))))
    IN  [n \in 1..Len(hits) |->
            to_string(SubSeq(hits[n], Len(key) + 2, Len(hits[n])))]

FirstOf(s) == IF s = << >> THEN None ELSE Some(s[1])
LastOf(s) == IF s = << >> THEN None ELSE Some(s[Len(s)])

\* C8 as claimed: the reply of a helper has, for each key, the value of the
\* first line of its output with that key.
C8_FirstOccurrenceWins ==
    is_some(output) =>
        log[Len(log)].reply = << FirstOf(ValuesOf(unwrap(output), B_username)),
                                 FirstOf(ValuesOf(unwrap(output), B_password)) >>

\* C8 as amended: the reply of a helper has, for each key, the value of the
\* last line of its output with that key (and a value that is text).
C8_LastOccurrenceWins ==
    is_some(output) =>
        log[Len(log)].reply = << LastOf(ValuesOf(unwrap(output), B_username)),
                                 LastOf(ValuesOf(unwrap(output), B_password)) >>

\* an output with two username lines was parsed to the second one's value
C8_Witness ==
    /\ output = Some(B_username \o <<"=", "a", "\n">>
                       \o B_username \o <<"=", "b", "\n">>)
    /\ log[Len(log)].reply = <<Some("b"), None>>

\* C9: execute returns a pair exactly when both fields are known at the end
\* of the loop; with no command it spawns nothing and returns not-found,
\* with or without a username.
C9_FoundIffBothKnown ==
    /\ pc = "done" => (is_some(unwrap(result)) <=> KnownAfter(Len(log)))
    /\ (InExecute /\ commands = << >>) =>
           /\ log = << >>
           /\ child = None
           /\ pc = "done" => unwrap(result) = None

\* execute returned not-found for an object with a username and no command
C9_Witness ==
    /\ pc = "done"
    /\ commands = << >>
    /\ is_some(username)
    /\ unwrap(result) = None

\* the &str that new() was given
UrlArgument == CHOOSE u \in Urls : to_string(u) = url

\* config has been called and has returned
Configured == queried # << >> /\ pc # "panicked"

InSeq(x, s) == \E n \in 1..Len(s) : s[n] = x

SpawnedEntries ==
    {log[k] : k \in {j \in 1..Len(log) : log[j].kind # "spawn_err"}}
        \cup (IF is_some(child) THEN {unwrap(child)} ELSE {})

\* the username known when command k is invoked: the object's, or else the
\* one of the earliest helper before k whose reply has one
KnownUsernameAt(k) ==
    LET has == {j \in 1..(k - 1) : is_some(log[j].reply[1])}
    IN  IF is_some(username) THEN username
        ELSE IF has = {} THEN None
        ELSE log[CHOOSE j \in has : \A m \in has : j <= m].reply[1]

\* the lines `name=value` of the known fields among protocol, host and the
\* username u, in this order
InputLinesFor(u) ==
    LET fields == << <<"protocol", protocol>>, <<"host", host>>,
                     <<"username", u>> >>
        known == SelectSeq(fields, LAMBDA f : is_some(f[2]))
    IN  [n \in 1..Len(known) |-> known[n][1] \o "=" \o unwrap(known[n][2])]

\* C11: every spawned helper has received, by the time execute waits for it,
\* the lines protocol=, host=, username= of the known fields in this order,
\* with the username known at its iteration (all of them when no write
\* failed, the first ones otherwise), at most three lines; a helper whose
\* input could not be written is waited for like any other.
C11_InputLines ==
    InExecute =>
        /\ \A e \in SpawnedEntries :
              /\ Len(e.stdin) <= 3
              /\ IsPrefix(e.stdin, InputLinesFor(KnownUsernameAt(e.cmd)))
              /\ ~ e.write_err => e.stdin = InputLinesFor(KnownUsernameAt(e.cmd))
        /\ is_some(child) => pc = "wait"
        /\ \A k \in 1..Len(log) :
              log[k].write_err => log[k].kind \in {"exit", "wait_err"}

\* the first helper got the protocol line only, for a failed write, and gave
\* a username; the second got that username after the protocol and the host
C11_Witness ==
    /\ Found
    /\ is_none(username)
    /\ Len(log) = 2
    /\ log[1].write_err
    /\ log[1].stdin = <<"protocol=https">>
    /\ log[1].reply = <<Some("v"), None>>
    /\ log[2].stdin = <<"protocol=https", "host=h", "username=v">>

\* the usernames execute can know: none, the object's, one from a reply
KnownUsernames ==
    {None, username} \cup {log[k].reply[1] : k \in 1..Len(log)}

\* what each command of the object does is a function of its shell line and
\* of the input it is offered
DeterministicHelpers ==
    \A k \in 1..Len(commands), u \in KnownUsernames :
        Cardinality(Outcomes(env, commands[k] \o " get", InputLinesFor(u))) = 1

\* the pair that the commands from the k-th on lead to, with the helpers
\* that are functions, from the username u and the password p
RECURSIVE Discovery(_, _, _)
Discovery(u, p, k) ==
    IF k > Len(commands)
    THEN (IF is_some(u) /\ is_some(p) THEN Some(<<unwrap(u), unwrap(p)>>) ELSE None)
    ELSE LET o == CHOOSE x \in Outcomes(env, commands[k] \o " get",
                                        InputLinesFor(u)) : TRUE
             r == IF o.kind = "exit" /\ o.success
                  THEN << LastOf(ValuesOf(o.stdout, B_username)),
                          LastOf(ValuesOf(o.stdout, B_password)) >>
                  ELSE <<None, None>>
             u2 == IF is_some(u) THEN u ELSE r[1]
             p2 == IF is_some(p) THEN p ELSE r[2]
         IN  IF is_some(u2) /\ is_some(p2)
             THEN Some(<<unwrap(u2), unwrap(p2)>>)
             ELSE Discovery(u2, p2, k + 1)

\* a step that belongs to an execute call
ExecuteStep == pc \in {"loop", "wait", "break"} \/ pc' \in {"loop", "wait", "break"}

\* C12 (state part): with helpers that are functions of command and input, an
\* execute returns what the execute before it on the same object returned,
\* and what it returns is fixed by the object's username, protocol, host and
\* commands, which Cred::credential_helper sets from its arguments alone.
C12_SameResult ==
    (pc = "done" /\ DeterministicHelpers) =>
        /\ is_some(previous) => result = previous
        /\ unwrap(result) = Discovery(username, None, 1)

\* C12 (step part): no step of execute changes the object
C12_ObjectUnchanged ==
    ExecuteStep => UNCHANGED << url, protocol, host, username, commands >>

\* C12: idempotence of discovery
C12_Idempotent == [](C12_SameResult) /\ [][C12_ObjectUnchanged]_vars

\* a second execute returned the pair of the first, which the second helper
\* completed from the username that the first had given
C12_Witness ==
    /\ pc = "done"
    /\ env = "scripted"
    /\ Len(log) = 2
    /\ log[1].reply = <<Some("v"), None>>
    /\ previous = Some(Some(<<"v", "p">>))
    /\ result = previous

\* C13: at every point of execute at most one helper process runs, the one
\* of the command after those whose replies were merged, and execute is then
\* waiting for it; a helper is spawned only when none runs and the replies
\* of all the commands before its own have been merged.
C13_OneAtATime ==
    /\ Cardinality(alive) <= 1
    /\ alive # {} => (pc = "wait" /\ alive = {Len(log) + 1})
    /\ \A k \in 1..Len(log) : log[k].cmd = k /\ k \notin alive

\* the third helper runs after the first ended and the second could not be
\* spawned
C13_Witness ==
    /\ alive = {3}
    /\ Len(log) = 2
    /\ log[1].kind = "exit"
    /\ log[2].kind = "spawn_err"

\* the value starts with `/`, with `\`, or with a letter and `:\`
LooksLikePath(v) ==
    \/ starts_with(v, <<"/">>)
    \/ starts_with(v, <<"\\">>)
    \/ /\ Len(v) >= 3
       /\ v[1] \in Letters \cup DOMAIN UpperToLower
       /\ v[2] = ":"
       /\ v[3] = "\\"

\* C14: a helper value that does not start with `!` becomes a quoted path
\* exactly when it starts with `/`, with `\` or with a letter followed by
\* `:\`, and the command `git credential-<value>` otherwise.
C14_PathOnlyIfDriveLetter ==
    \A k \in 1..Len(raw) :
        ~ starts_with(raw[k], <<"!">>) =>
            commands[k] = IF LooksLikePath(raw[k])
                          THEN "\"" \o to_string(raw[k]) \o "\""
                          ELSE "git credential-" \o to_string(raw[k])

\* the number of helper keys that config looks up and that hold a value
PresentHelperValues == Len(ValuesAt(KeysInOrder(S_helper)))

\* C19: a config call does not fail in add_command and appends exactly one
\* command for each helper value that is present, whatever the value, and
\* none for an absent one.
C19_AddCommandTotal ==
    [][ Config => /\ pc' # "panicked"
                  /\ Len(commands') = Len(commands) + PresentHelperValues ]_vars

\* the helper of the log entry did not run to an exit with status zero
Failed(e) == e.kind \in {"spawn_err", "wait_err"} \/ ~ e.success

\* the output has a line that starts with `username=` or `password=`
HasCredentialLines(out) ==
    \E l \in {split(out, "\n")[n] : n \in 1..Len(split(out, "\n"))} :
        starts_with(l, B_username \o <<"=">>) \/ starts_with(l, B_password \o <<"=">>)

\* C15 (state part): every helper that failed to spawn, could not be waited
\* for or exited non-zero has the reply (None, None), whatever it printed;
\* execute never fails for it, and what it returns is a pair or not-found.
C15_FailureIsNoAnswer ==
    /\ \A k \in 1..Len(log) : Failed(log[k]) => log[k].reply = <<None, None>>
    /\ is_some(discarded) => Failed(log[Len(log)])
    /\ InExecute => pc # "panicked"
    /\ pc = "done" =>
           \/ unwrap(result) = None
           \/ /\ Len(unwrap(unwrap(result))) = 2
              /\ Some(unwrap(unwrap(result))[1]) = cur_username
              /\ Some(unwrap(unwrap(result))[2]) = password

\* C15 (step part): the step that ends a failed helper leaves the username
\* and the password as they were and goes on with the loop
C15_FailureChangesNothing ==
    (Len(log') = Len(log) + 1 /\ Failed(log'[Len(log')])) =>
        /\ cur_username' = cur_username
        /\ password' = password
        /\ pc' = "loop"

\* C15: per-helper failure containment
C15_FailureContained ==
    [](C15_FailureIsNoAnswer) /\ [][C15_FailureChangesNothing]_vars

\* a helper could not be spawned, the next could not be waited for, the
\* last printed a username and a password and exited non-zero, and execute
\* returned not-found
C15_Witness ==
    /\ pc = "done"
    /\ unwrap(result) = None
    /\ Len(log) = 3
    /\ log[1].kind = "spawn_err"
    /\ log[2].kind = "wait_err"
    /\ log[3].kind = "exit" /\ ~ log[3].success
    /\ is_some(discarded)
    /\ HasCredentialLines(unwrap(discarded))

\* the key and the value of a line: what is before and after its first `=`
KeyOf(l) == SubSeq(l, 1, Position(l, "=", 1) - 1)
ValueOf(l) == SubSeq(l, Position(l, "=", 1) + 1, Len(l))

\* the line is dropped: it has no `=`, its value is not text, or its key is
\* neither `username` nor `password`
Dropped(l) ==
    \/ Position(l, "=", 1) = 0
    \/ ~ from_utf8_ok(ValueOf(l))
    \/ KeyOf(l) \notin {B_username, B_password}

\* the value of the last of the lines with the key, None when there is none
LastValue(lines, key) ==
    LET hits == SelectSeq(lines, LAMBDA l : KeyOf(l) = key)
    IN  IF hits = << >> THEN None ELSE Some(to_string(ValueOf(hits[Len(hits)])))

\* the lines joined by line feeds
RECURSIVE Join(_)
Join(lines) ==
    IF lines = << >> THEN << >>
    ELSE IF Len(lines) = 1 THEN lines[1]
    ELSE Head(lines) \o <<"\n">> \o Join(Tail(lines))

\* the output of the lines without the i-th
JoinWithout(lines, i) ==
    Join(SubSeq(lines, 1, i - 1) \o SubSeq(lines, i + 1, Len(lines)))

\* C16: the reply of a helper is made of the lines of its output that are
\* not dropped, each cut at its first `=` (the rest, further `=` included,
\* is the value); a dropped line -- no `=`, a value that is not text, a key
\* that is neither `username` nor `password` -- changes nothing: the output
\* without it parses to the same reply.
C16_LineLocal ==
    is_some(output) =>
        LET lines == split(unwrap(output), "\n")
            kept == SelectSeq(lines, LAMBDA l : ~ Dropped(l))
            reply == log[Len(log)].reply
        IN  /\ reply = << LastValue(kept, B_username), LastValue(kept, B_password) >>
            /\ \A i \in 1..Len(lines) :
                   Dropped(lines[i]) => parse_output(JoinWithout(lines, i)) = reply

\* a password with a `=` in it was parsed whole, next to a key that is not
\* `username` and a username that is not text
C16_Witness ==
    /\ output = Some(B_password \o <<"=", "p", "=", "q", "\n">>
                       \o <<"x">> \o B_username \o <<"=", "c", "\n">>
                       \o B_username \o <<"=", "FF", "\n">>)
    /\ log[Len(log)].reply = <<None, Some("p=q")>>

\* a reply of the log has a username that is not empty
NonEmptyUsernameReported ==
    \E k \in 1..Len(log) :
        is_some(log[k].reply[1]) /\ log[k].reply[1] # Some("")

\* C17 as claimed: an empty username is like an absent one: it does not stay
\* once a helper has reported a username that is not empty, and the loop is
\* not left for an empty username and a password.
C17_EmptyUsernameIsAbsent ==
    InExecute =>
        /\ cur_username = Some("") => ~ NonEmptyUsernameReported
        /\ pc = "break" => cur_username # Some("")

\* C17 as amended: an empty username is a username like any other: one that
\* the caller, the configuration or the earliest reply with a username gave
\* is execute's username to the end, whatever later helpers report, and
\* with a password it ends the loop and is returned.
C17_EmptyUsernameIsPresent ==
    InExecute =>
        /\ username = Some("") => cur_username = Some("")
        /\ (is_none(username) /\ FirstReported(1) = Some("")) => cur_username = Some("")
        /\ (cur_username = Some("") /\ is_some(password) /\ Len(log) > 0) =>
               /\ pc \in {"break", "done"}
               /\ pc = "done" => unwrap(result) = Some(<<"", unwrap(password)>>)

\* the first helper reported the empty username, the second a username and
\* a password, and the pair has the empty username
C17_Witness ==
    /\ Found
    /\ is_none(username)
    /\ Len(log) = 2
    /\ log[1].reply = <<Some(""), None>>
    /\ log[2].reply = <<Some("u"), Some("p")>>
    /\ unwrap(result) = Some(<<"", "p">>)

\* execute is in its loop
Running == pc \in {"loop", "wait", "break"}

\* execute waits for a helper process that never ends
Hung == is_some(child) /\ unwrap(child).hangs

\* C18: execute never invokes more helpers than there are commands; an
\* execute in progress returns, unless it comes to wait for a helper that
\* never ends; and from then on nothing happens: execute does not return
\* and no further helper is invoked.
C18_Termination ==
    /\ [](InExecute => Invoked <= Len(commands))
    /\ Running ~> (pc = "done" \/ Hung)
    /\ [][Hung => UNCHANGED vars]_vars

\* execute waits for a second helper that never ends, with a third command
\* yet to run
C18_Witness ==
    /\ Hung
    /\ pc = "wait"
    /\ Len(log) = 1
    /\ Len(commands) = 3

====
